---- MODULE Spec2Model ----
(***************************************************************************)
(* Repository / Unit-of-Work / Identity-Map layer of src/main.py.          *)
(*                                                                         *)
(* The relational store and the SQLAlchemy session are the collaborators   *)
(* of the layer: the store is two tables with a primary key each, a        *)
(* session is a list of staged rows plus the "rolled back by a failed      *)
(* flush" mark that SQLAlchemy keeps until rollback() is called.           *)
(* Entities are objects: a User entity lives at a reference of the heap,   *)
(* a Car entity is the record held in its owner's car list and carries     *)
(* the reference of the User it points back to.                            *)
(***************************************************************************)
EXTENDS Naturals, Sequences, FiniteSets, TLC

\* ------------------------------------------------------------- bounds
\* Cars a caller puts in one User entity.
MaxCars == 2
\* User entity objects that outlive the call that made them, in one
\* behaviour (references 1..MaxRef).
MaxRef == 2
\* with-blocks on one Unit of Work that a caller nests.
MaxDepth == 2
\* Sessions a behaviour leaves acquired and never released.
MaxOrphans == 1

\* ------------------------------------------------------------- domains
UoWs == {"A", "B"}
UserIds == {"u1", "u2"}
CarIds == {"c1", "c2"}
Names == {"John", "Ann"}
Brands == {"Audi", "BMW"}

\* Python's None as an object reference, and as the owner of a Car entity
\* handed to cars.add.
NoRef == 0
NoneUser == [id |-> "None", name |-> "None"]
\* "no row" / "no model" returned by a point query.
NoneModel == [id |-> "None", name |-> "None", cars |-> <<>>]

Refs == 1..MaxRef

\* ------------------------------------------------------------- entities
\* A caller's User entity before it is an object: identifier, name, cars
\* (identifier, brand) in list order, and whether the caller set each
\* car's owner reference (the demo appends the car and leaves it None).
CarSeqs(n) == UNION {[1..k -> [id : CarIds, brand : Brands]] : k \in 0..n}

UserInputs(n) ==
    {[id |-> i, name |-> nm, cars |-> cs, linked |-> l] :
        i \in UserIds, nm \in Names, cs \in CarSeqs(n), l \in BOOLEAN}

\* UserEntity(id, name, cars) built by the caller at reference r
\* (dataclasses UserEntity / CarEntity).
UserEntity(inp, r) ==
    [id |-> inp.id, name |-> inp.name,
     cars |-> [i \in 1..Len(inp.cars) |->
                 [id |-> inp.cars[i].id, brand |-> inp.cars[i].brand,
                  user |-> IF inp.linked THEN r ELSE NoRef]]]

\* CarEntity(id, brand, user) handed to cars.add: the owner is None or a
\* User entity, of which the layer reads id and name only.
CarInputs ==
    {[id |-> c, brand |-> b, user |-> o] :
        c \in CarIds, b \in Brands,
        o \in {NoneUser} \cup [id : UserIds, name : Names]}

\* The (identifier, brand) pairs of a list of car entities or car models.
CarPairs(cars) == {<<cars[i].id, cars[i].brand>> : i \in 1..Len(cars)}

\* ------------------------------------------------------------- mapper
\* A translation that drops the user's cars.
user_entity_to_model_nocars(user) ==
    [id |-> user.id, name |-> user.name, cars |-> <<>>]

\* user_entity_to_model: UserModel with one CarModel per car, each linked
\* to the user model (its user_id is the user's id); a car entity's own
\* owner reference is not read.
user_entity_to_model(user) ==
    [id |-> user.id, name |-> user.name,
     cars |-> [i \in 1..Len(user.cars) |->
                 [id |-> user.cars[i].id, brand |-> user.cars[i].brand,
                  user_id |-> user.id]]]

\* A mapper that leaves the reconstructed cars without owner.
user_model_to_entity_noowner(user, r) ==
    [id |-> user.id, name |-> user.name,
     cars |-> [i \in 1..Len(user.cars) |->
                 [id |-> user.cars[i].id, brand |-> user.cars[i].brand,
                  user |-> NoRef]]]

\* user_model_to_entity: the entity built at the fresh reference r; every
\* car entity's owner is r itself.
user_model_to_entity(user, r) ==
    [id |-> user.id, name |-> user.name,
     cars |-> [i \in 1..Len(user.cars) |->
                 [id |-> user.cars[i].id, brand |-> user.cars[i].brand,
                  user |-> r]]]

\* A translation that accepts a car without owner and writes it with a
\* null owner.
car_entity_to_model_nullable(car) ==
    [ok |-> TRUE,
     model |-> [id |-> car.id, brand |-> car.brand,
                user |-> [id |-> car.user.id, name |-> car.user.name]]]

\* car_entity_to_model: CarModel(id, brand, user=UserModel(id, name)).
\* car.user.id on a None owner raises AttributeError while the arguments
\* are evaluated, before any model exists.
car_entity_to_model(car) ==
    IF car.user = NoneUser
      THEN [ok |-> FALSE, model |-> NoneModel]
      ELSE [ok |-> TRUE,
            model |-> [id |-> car.id, brand |-> car.brand,
                       user |-> [id |-> car.user.id, name |-> car.user.name]]]

\* car_model_to_entity: the Car entity and, at the fresh reference r, a
\* User entity holding just this car. carModel is the loaded CarModel with
\* its user relationship resolved: [id, brand, user: [id, name]].
CarOwnerEntity(carModel, r) ==
    [id |-> carModel.user.id, name |-> carModel.user.name,
     cars |-> <<[id |-> carModel.id, brand |-> carModel.brand, user |-> r]>>]

\* A mapper that names the car itself as the owner's identifier.
car_model_to_entity_wrongowner(carModel, r) ==
    [car |-> [id |-> carModel.id, brand |-> carModel.brand, user |-> r],
     owner |-> [id |-> carModel.id, name |-> carModel.user.name,
                cars |-> <<[id |-> carModel.id, brand |-> carModel.brand,
                            user |-> r]>>]]

car_model_to_entity(carModel, r) ==
    [car |-> [id |-> carModel.id, brand |-> carModel.brand, user |-> r],
     owner |-> CarOwnerEntity(carModel, r)]

\* ------------------------------------------------------------- store
\* The two tables, keyed by primary key. users: id -> name;
\* cars ("comments"): id -> (brand, user_id).
EmptyFn == [x \in {} |-> NoRef]
EmptyDb == [users |-> EmptyFn, cars |-> EmptyFn]

\* The order in which a scan returns rows (the store guarantees none; the
\* claims compare sets).
UserOrder == <<"u1", "u2">>
CarOrder == <<"c1", "c2">>

\* INSERT statements of one staged object graph, parents first.
UserRow(id, name) ==
    [tbl |-> "users", id |-> id, name |-> name, brand |-> "", user_id |-> ""]
CarRow(id, brand, user_id) ==
    [tbl |-> "cars", id |-> id, name |-> "", brand |-> brand, user_id |-> user_id]

UserModelRows(userModel) ==
    <<UserRow(userModel.id, userModel.name)>> \o
    [i \in 1..Len(userModel.cars) |->
        CarRow(userModel.cars[i].id, userModel.cars[i].brand,
               userModel.cars[i].user_id)]

\* A car model staged without the user model it refers to.
CarModelRows_caronly(carModel) ==
    <<CarRow(carModel.id, carModel.brand, carModel.user.id)>>

CarModelRows(carModel) ==
    (IF carModel.user = NoneUser THEN <<>>
     ELSE <<UserRow(carModel.user.id, carModel.user.name)>>) \o
    <<CarRow(carModel.id, carModel.brand, carModel.user.id)>>

\* A store with no primary key on users: a second row of an identifier
\* is taken and ignored.
Conflicts_carsonly(db, row) == row.tbl = "cars" /\ row.id \in DOMAIN db.cars

\* Primary-key constraint of the row's table.
Conflicts(db, row) ==
    IF row.tbl = "users" THEN row.id \in DOMAIN db.users
    ELSE row.id \in DOMAIN db.cars

InsertRow(db, row) ==
    IF row.tbl = "users"
      THEN [db EXCEPT !.users = @ @@ (row.id :> row.name)]
      ELSE [db EXCEPT !.cars =
               @ @@ (row.id :> [brand |-> row.brand, user_id |-> row.user_id])]

\* The flush of a session: the staged rows are inserted one by one in the
\* session's transaction; the first primary-key conflict stops it. db is
\* the transaction's view when it stopped.
RECURSIVE InsertRows(_, _)
InsertRows(db, rows) ==
    IF rows = <<>> THEN [ok |-> TRUE, db |-> db]
    ELSE IF Conflicts(db, Head(rows)) THEN [ok |-> FALSE, db |-> db]
    ELSE InsertRows(InsertRow(db, Head(rows)), Tail(rows))

\* ------------------------------------------------------------- session
\* A session: rows staged by session.add and not yet committed, and the
\* mark of a transaction rolled back by a failed flush, which makes every
\* further statement raise until rollback() is called.
NewSession == [pending |-> <<>>, inactive |-> FALSE]

\* session.add(model)
SessionAdd(sess, rows) == [sess EXCEPT !.pending = @ \o rows]

\* A store that keeps the rows inserted before the conflict.
SessionCommit_partial(sess, db) ==
    IF sess.inactive
      THEN [sess |-> sess, db |-> db, outcome |-> "PendingRollbackError"]
      ELSE LET f == InsertRows(db, sess.pending) IN
           IF f.ok
             THEN [sess |-> NewSession, db |-> f.db, outcome |-> "ok"]
             ELSE [sess |-> [pending |-> <<>>, inactive |-> TRUE],
                   db |-> f.db, outcome |-> "DuplicateKeyError"]

\* session.commit(): flush the staged rows and commit the transaction. A
\* conflict rolls the whole transaction back, drops the staged objects
\* from the session and leaves the session waiting for rollback(); in
\* that state commit() raises and changes nothing.
SessionCommit(sess, db) ==
    IF sess.inactive
      THEN [sess |-> sess, db |-> db, outcome |-> "PendingRollbackError"]
      ELSE LET f == InsertRows(db, sess.pending) IN
           IF f.ok
             THEN [sess |-> NewSession, db |-> f.db, outcome |-> "ok"]
             ELSE [sess |-> [pending |-> <<>>, inactive |-> TRUE],
                   db |-> db, outcome |-> "DuplicateKeyError"]

\* session.rollback(): staged rows are discarded, the session is usable
\* again.
SessionRollback(sess) == NewSession

\* session.close(): the transaction is ended and every object leaves the
\* session.
SessionClose(sess) == NewSession

\* What a query of the session sees: the committed rows and, by autoflush,
\* the session's own staged rows.
View(sess, db) ==
    LET f == InsertRows(db, sess.pending) IN IF f.ok THEN f.db ELSE db

\* The CarModels of user k, as the relationship UserModel.cars loads them.
CarModelsOf(view, k) ==
    LET owned == SelectSeq(CarOrder,
                   LAMBDA c : c \in DOMAIN view.cars /\ view.cars[c].user_id = k)
    IN [i \in 1..Len(owned) |->
          [id |-> owned[i], brand |-> view.cars[owned[i]].brand, user_id |-> k]]

\* session.query(UserModel).get(id_)
QueryUser(view, k) ==
    IF k \in DOMAIN view.users
      THEN [id |-> k, name |-> view.users[k], cars |-> CarModelsOf(view, k)]
      ELSE NoneModel

\* session.query(UserModel).all()
QueryUsers(view) ==
    LET ids == SelectSeq(UserOrder, LAMBDA k : k \in DOMAIN view.users)
    IN [i \in 1..Len(ids) |-> QueryUser(view, ids[i])]

\* session.query(CarModel).get(id_), with the relationship CarModel.user
\* resolved (None when no users row has the car's user_id).
QueryCar(view, c) ==
    IF c \in DOMAIN view.cars
      THEN [id |-> c, brand |-> view.cars[c].brand,
            user |-> IF view.cars[c].user_id \in DOMAIN view.users
                       THEN [id |-> view.cars[c].user_id,
                             name |-> view.users[view.cars[c].user_id]]
                       ELSE NoneUser]
      ELSE [id |-> "None", brand |-> "None", user |-> NoneUser]

\* session.query(CarModel).all()
QueryCars(view) ==
    LET ids == SelectSeq(CarOrder, LAMBDA c : c \in DOMAIN view.cars)
    IN [i \in 1..Len(ids) |-> QueryCar(view, ids[i])]

\* ------------------------------------------------------------- repositories
\* Each operation is a function of the session, the store and the identity
\* map it works on, and yields their new values, the outcome ("ok" or the
\* exception that leaves the method) and the session calls it made.

\* An add that stages the model and leaves the commit to the caller.
UserRepository_add_nocommit(sess, db, map, entity, r) ==
    [sess |-> SessionAdd(sess, UserModelRows(user_entity_to_model(entity))),
     db |-> db, map |-> (entity.id :> r) @@ map,
     outcome |-> "ok", calls |-> <<"add">>]

\* UserRepository.add: the caller's entity (the object at r) goes into the
\* identity map first, then its model is staged and committed.
UserRepository_add(sess, db, map, entity, r) ==
    LET staged == SessionAdd(sess, UserModelRows(user_entity_to_model(entity)))
        c == SessionCommit(staged, db)
    IN [sess |-> c.sess, db |-> c.db, map |-> (entity.id :> r) @@ map,
        outcome |-> c.outcome, calls |-> <<"add", "commit">>]

\* An add of a car that stages and leaves the commit to the caller.
CarRepository_add_nocommit(sess, db, car) ==
    LET m == car_entity_to_model(car) IN
    IF ~m.ok
      THEN [sess |-> sess, db |-> db, outcome |-> "AttributeError",
            calls |-> <<>>]
      ELSE [sess |-> SessionAdd(sess, CarModelRows(m.model)), db |-> db,
            outcome |-> "ok", calls |-> <<"add">>]

\* CarRepository.add: translate, stage, commit. A failed translation
\* leaves the method before session.add.
CarRepository_add(sess, db, car) ==
    LET m == car_entity_to_model(car) IN
    IF ~m.ok
      THEN [sess |-> sess, db |-> db, outcome |-> "AttributeError",
            calls |-> <<>>]
      ELSE LET c == SessionCommit(SessionAdd(sess, CarModelRows(m.model)), db)
           IN [sess |-> c.sess, db |-> c.db, outcome |-> c.outcome,
               calls |-> <<"add", "commit">>]

\* A lookup that hands out the entity it has just built, and maps it.
_get_user_fresh(map, instance, r) ==
    IF instance = NoneModel
      THEN [ret |-> NoRef, map |-> map, fresh |-> EmptyFn]
      ELSE LET entity == user_model_to_entity(instance, r) IN
           [ret |-> r, map |-> (entity.id :> r) @@ map,
            fresh |-> (r :> entity)]

\* UserRepository._get_user: nothing for no model; otherwise the entity is
\* built, and the mapped instance is returned when the identifier is in
\* the identity map, else the new entity is mapped and returned.
\* fresh: the objects that outlive the call.
_get_user(map, instance, r) ==
    IF instance = NoneModel
      THEN [ret |-> NoRef, map |-> map, fresh |-> EmptyFn]
      ELSE LET entity == user_model_to_entity(instance, r) IN
           IF entity.id \in DOMAIN map
             THEN [ret |-> map[entity.id], map |-> map, fresh |-> EmptyFn]
             ELSE [ret |-> r, map |-> (entity.id :> r) @@ map,
                   fresh |-> (r :> entity)]

\* A get that answers from the identity map first and records an
\* identifier it did not find.
UserRepository_get_negcache(sess, db, map, k, r) ==
    IF sess.inactive
      THEN [outcome |-> "PendingRollbackError", ret |-> NoRef, map |-> map,
            fresh |-> EmptyFn]
      ELSE IF k \in DOMAIN map
        THEN [outcome |-> "ok", ret |-> map[k], map |-> map, fresh |-> EmptyFn]
      ELSE LET g == _get_user(map, QueryUser(View(sess, db), k), r)
           IN [outcome |-> "ok", ret |-> g.ret,
               map |-> IF g.ret = NoRef THEN (k :> NoRef) @@ map ELSE g.map,
               fresh |-> g.fresh]

\* UserRepository.get
UserRepository_get(sess, db, map, k, r) ==
    IF sess.inactive
      THEN [outcome |-> "PendingRollbackError", ret |-> NoRef, map |-> map,
            fresh |-> EmptyFn]
      ELSE LET g == _get_user(map, QueryUser(View(sess, db), k), r)
           IN [outcome |-> "ok", ret |-> g.ret, map |-> g.map,
               fresh |-> g.fresh]

\* UserRepository.list: one new entity per row, at r, r+1, ...
UserRepository_list(sess, db, r) ==
    IF sess.inactive
      THEN [outcome |-> "PendingRollbackError", users |-> <<>>,
            fresh |-> EmptyFn]
      ELSE LET models == QueryUsers(View(sess, db)) IN
           [outcome |-> "ok",
            users |-> [i \in 1..Len(models) |-> r + i - 1],
            fresh |-> [x \in {r + i - 1 : i \in 1..Len(models)} |->
                         user_model_to_entity(models[x - r + 1], x)]]

\* [car_model_to_entity(car) for car in car_models], owners at r, r+1, ...
CarEntities(models, r) ==
    [cars |-> [i \in 1..Len(models) |->
                 car_model_to_entity(models[i], r + i - 1).car],
     fresh |-> [x \in {r + i - 1 : i \in 1..Len(models)} |->
                  car_model_to_entity(models[x - r + 1], x).owner]]

\* A row whose owner cannot be loaded makes car.user.id raise.
Ownerless(models) == \E i \in 1..Len(models) : models[i].user = NoneUser

\* CarRepository.get
CarRepository_get(sess, db, c, r) ==
    IF sess.inactive
      THEN [outcome |-> "PendingRollbackError", cars |-> <<>>,
            fresh |-> EmptyFn]
      ELSE LET m == QueryCar(View(sess, db), c)
               models == IF m.id = "None" THEN <<>> ELSE <<m>>
           IN IF Ownerless(models)
                THEN [outcome |-> "AttributeError", cars |-> <<>>,
                      fresh |-> EmptyFn]
                ELSE [outcome |-> "ok"] @@ CarEntities(models, r)

\* CarRepository.list
CarRepository_list(sess, db, r) ==
    IF sess.inactive
      THEN [outcome |-> "PendingRollbackError", cars |-> <<>>,
            fresh |-> EmptyFn]
      ELSE LET models == QueryCars(View(sess, db)) IN
           IF Ownerless(models)
             THEN [outcome |-> "AttributeError", cars |-> <<>>,
                   fresh |-> EmptyFn]
             ELSE [outcome |-> "ok"] @@ CarEntities(models, r)

\* ------------------------------------------------------------- unit of work
\* MainUnitOfWork.__enter__: a new session, and new repositories on it;
\* UserRepository.__init__ starts with an empty identity map.
MainUnitOfWork_enter == [sess |-> NewSession, map |-> EmptyFn]

\* MainUnitOfWork.commit
MainUnitOfWork_commit(sess, db) == SessionCommit(sess, db)

\* MainUnitOfWork.rollback
MainUnitOfWork_rollback(sess) == SessionRollback(sess)

\* AbstractUnitOfWork.__exit__: self.rollback()
AbstractUnitOfWork_exit(sess) ==
    [sess |-> MainUnitOfWork_rollback(sess), calls |-> <<"rollback">>]

\* An exit that only closes the session.
MainUnitOfWork_exit_closeonly(sess) ==
    [sess |-> SessionClose(sess), calls |-> <<"close">>]

\* MainUnitOfWork.__exit__: super().__exit__(), then session.close(),
\* which releases the session with nothing staged.
MainUnitOfWork_exit(sess) ==
    LET a == AbstractUnitOfWork_exit(sess) IN
    [sess |-> SessionClose(a.sess), calls |-> a.calls \o <<"close">>]

\* ------------------------------------------------------------- state
VARIABLES
    db,            \* the committed rows of the store
    uowState,      \* per Unit of Work: "Closed" (never entered), "Open", "Ended"
    session,       \* per Unit of Work: the session of its current scope
    identity_map,  \* per Unit of Work: users._identity_map, id -> reference
    heap,          \* the User entity objects still referenced
    nextRef,       \* the next unused reference
    lastOp,        \* the last call made on the layer and what it returned
    addLog         \* history: per user id, the successful users.add of it:
                   \* the entity's name and cars, the Unit of Work whose
                   \* scope added it (by, "None" once that scope is left),
                   \* the object added (ref), whether the current scope
                   \* of the writer had a users.add of the id rejected
                   \* (again), and what followed
                   \* the add in that scope (how): "added", then
                   \* "committed" by an explicit commit(), or "discarded"
                   \* by rollback() or by leaving the scope
VARIABLES
    depth,         \* per Unit of Work: the with-blocks on it being executed
    orphans        \* sessions that were acquired and that no Unit of Work
                   \* refers to any more, so that nothing will ever call
                   \* rollback() or close() on them

vars == <<db, uowState, session, identity_map, heap, nextRef, lastOp, addLog,
          depth, orphans>>

Range(f) == {f[x] : x \in DOMAIN f}
Restrict(f, S) == [x \in (DOMAIN f \cap S) |-> f[x]]

\* The record of a call: the method, the Unit of Work, the identifier it
\* was given (for cars.add also the owner's, "None" for no owner), the
\* outcome, what it returned (ret: a User; users: Users; cars: Cars;
\* fresh: the User objects built for the caller), the session calls it
\* made, and two notes on the call before it: afterError, for an exit,
\* when the call before it in the block failed; afterMiss, for a
\* successful users.add, when the call before it was a users.get of the
\* same identifier in the other Unit of Work that found nothing, and for
\* a users.get, when the call before it was such an add and the get is
\* made in the Unit of Work that had found nothing.
Op(op, u, key, outcome) ==
    [op |-> op, uow |-> u, key |-> key, owner |-> "None",
     outcome |-> outcome, ret |-> NoRef,
     users |-> <<>>, cars |-> <<>>, fresh |-> EmptyFn, calls |-> <<>>,
     afterError |-> FALSE, afterMiss |-> FALSE]

\* The objects that outlive a call: those of the identity maps. What
\* list() and cars.get() build is handed to the caller and kept by nobody
\* else: it is recorded with the call (lastOp.fresh) and takes no
\* reference away.
LiveRefs(maps) == UNION {Range(maps[u]) : u \in UoWs}

\* The callers of the layer. Unit of Work "A" is used by a caller that
\* writes and reads, "B" by one that only reads. The entities the writer
\* builds: an identifier always comes with the same name, a car identifier
\* with the same brand, a user's cars are listed in the order of CarOrder,
\* and the owner references of a user's cars are all set or all left None.
Writers == {"A"}
NameOf(k) == IF k = "u1" THEN "John" ELSE "Ann"
BrandOf(c) == IF c = "c1" THEN "Audi" ELSE "BMW"

CallerCars ==
    {[i \in 1..Len(ids) |-> [id |-> ids[i], brand |-> BrandOf(ids[i])]] :
        ids \in {SelectSeq(CarOrder, LAMBDA c : c \in S) :
                   S \in {T \in SUBSET CarIds : Cardinality(T) <= MaxCars}}}

AddInputs ==
    {[id |-> i, name |-> NameOf(i), cars |-> cs, linked |-> l] :
        i \in UserIds, cs \in CallerCars, l \in BOOLEAN}
      \ {[id |-> i, name |-> NameOf(i), cars |-> <<>>, linked |-> FALSE] :
            i \in UserIds}

CarAddInputs ==
    {[id |-> c, brand |-> BrandOf(c), user |-> o] :
        c \in CarIds,
        o \in {NoneUser} \cup {[id |-> i, name |-> NameOf(i)] : i \in UserIds}}

Init ==
    /\ db = EmptyDb
    /\ uowState = [u \in UoWs |-> "Closed"]
    /\ session = [u \in UoWs |-> NewSession]
    /\ identity_map = [u \in UoWs |-> EmptyFn]
    /\ heap = EmptyFn
    /\ nextRef = 1
    /\ lastOp = Op("init", "None", "None", "ok")
    /\ addLog = EmptyFn
    /\ depth = [u \in UoWs |-> 0]
    /\ orphans = 0

\* The part of a step common to the calls of u: the new session, store,
\* identity map, objects and the record of the call.
Effect(u, sess2, db2, map2, kept, op) ==
    /\ session' = [session EXCEPT ![u] = sess2]
    /\ db' = db2
    /\ identity_map' = [identity_map EXCEPT ![u] = map2]
    /\ nextRef' = nextRef + Cardinality(DOMAIN kept)
    /\ lastOp' = op
    /\ heap' = Restrict(kept @@ heap, LiveRefs(identity_map'))

\* History: the adds of u's current scope that are still "added" become
\* committed explicitly, or discarded (rolled back, or the scope left).
Mark(u, how) ==
    [k \in DOMAIN addLog |->
        IF addLog[k].by = u /\ addLog[k].how = "added"
          THEN [addLog[k] EXCEPT !.how = how] ELSE addLog[k]]

\* History: the scope of u is over.
Left(log, u) ==
    [k \in DOMAIN log |->
        IF log[k].by = u
          THEN [log[k] EXCEPT !.by = "None", !.ref = NoRef, !.again = FALSE]
          ELSE IF u \in Writers THEN [log[k] EXCEPT !.again = FALSE]
          ELSE log[k]]

\* An entry that keeps the repository, and its identity map, of the
\* scope before.
Enter_keepmap(u) ==
    /\ depth[u] = 0
    /\ uowState' = [uowState EXCEPT ![u] = "Open"]
    /\ Effect(u, MainUnitOfWork_enter.sess, db, identity_map[u],
              EmptyFn, Op("enter", u, "None", "ok"))
    /\ depth' = [depth EXCEPT ![u] = 1]
    /\ UNCHANGED <<addLog, orphans>>

\* with uow: ... (MainUnitOfWork.__enter__), no with-block on uow being
\* executed
Enter(u) ==
    /\ depth[u] = 0
    /\ uowState' = [uowState EXCEPT ![u] = "Open"]
    /\ Effect(u, MainUnitOfWork_enter.sess, db, MainUnitOfWork_enter.map,
              EmptyFn, Op("enter", u, "None", "ok"))
    /\ depth' = [depth EXCEPT ![u] = 1]
    /\ UNCHANGED <<addLog, orphans>>

\* uow.users.add(user), user an object the caller has just built. A caller
\* whose call failed rolls back or leaves the block before it adds again.
UsersAdd(u, inp) ==
    /\ u \in Writers
    /\ uowState[u] = "Open"
    /\ ~session[u].inactive
    /\ nextRef <= MaxRef
    /\ LET entity == UserEntity(inp, nextRef)
           a == UserRepository_add(session[u], db, identity_map[u], entity,
                                   nextRef)
       IN /\ Effect(u, a.sess, a.db, a.map, (nextRef :> entity),
                    [Op("users.add", u, inp.id, a.outcome)
                       EXCEPT !.ret = nextRef, !.calls = a.calls,
                              !.afterMiss = /\ a.outcome = "ok"
                                            /\ lastOp.op = "users.get"
                                            /\ lastOp.uow # u
                                            /\ lastOp.key = inp.id
                                            /\ lastOp.outcome = "ok"
                                            /\ lastOp.ret = NoRef])
          /\ addLog' =
               IF a.outcome = "ok"
                 THEN (inp.id :> [name |-> inp.name, cars |-> inp.cars,
                                  by |-> u, how |-> "added", ref |-> nextRef,
                                  again |-> FALSE]) @@ addLog
               ELSE IF inp.id \in DOMAIN addLog
                 THEN [addLog EXCEPT ![inp.id].again = TRUE]
               ELSE addLog
    /\ UNCHANGED <<uowState, depth, orphans>>

\* uow.cars.add(car)
CarsAdd(u, car) ==
    /\ u \in Writers
    /\ uowState[u] = "Open"
    /\ ~session[u].inactive
    /\ LET a == CarRepository_add(session[u], db, car)
       IN Effect(u, a.sess, a.db, identity_map[u], EmptyFn,
                 [Op("cars.add", u, car.id, a.outcome)
                    EXCEPT !.calls = a.calls, !.owner = car.user.id])
    /\ UNCHANGED <<uowState, addLog, depth, orphans>>

\* uow.users.get(k)
UsersGet(u, k) ==
    /\ uowState[u] = "Open"
    /\ LET g == UserRepository_get(session[u], db, identity_map[u], k, nextRef)
       IN /\ nextRef + Cardinality(DOMAIN g.fresh) <= MaxRef + 1
          /\ Effect(u, session[u], db, g.map, g.fresh,
                    [Op("users.get", u, k, g.outcome)
                       EXCEPT !.ret = g.ret,
                              !.afterMiss = /\ lastOp.op = "users.add"
                                            /\ lastOp.afterMiss
                                            /\ lastOp.uow # u
                                            /\ lastOp.key = k])
    /\ UNCHANGED <<uowState, addLog, depth, orphans>>

\* A list that passes what it loads through the identity map, as get
\* does.
UsersList_viaMap(u) ==
    /\ uowState[u] = "Open"
    /\ LET l == UserRepository_list(session[u], db, nextRef)
           known == {r \in DOMAIN l.fresh :
                       l.fresh[r].id \in DOMAIN identity_map[u]}
       IN Effect(u, session[u], db, identity_map[u], EmptyFn,
                 [Op("users.list", u, "None", l.outcome)
                    EXCEPT !.users = [i \in 1..Len(l.users) |->
                                        IF l.users[i] \in known
                                          THEN identity_map[u][l.fresh[l.users[i]].id]
                                          ELSE l.users[i]],
                           !.fresh = Restrict(l.fresh, DOMAIN l.fresh \ known)])
    /\ UNCHANGED <<uowState, addLog, depth, orphans>>

\* uow.users.list()
UsersList(u) ==
    /\ uowState[u] = "Open"
    /\ LET l == UserRepository_list(session[u], db, nextRef)
       IN Effect(u, session[u], db, identity_map[u], EmptyFn,
                 [Op("users.list", u, "None", l.outcome)
                    EXCEPT !.users = l.users, !.fresh = l.fresh])
    /\ UNCHANGED <<uowState, addLog, depth, orphans>>

\* uow.cars.get(c)
CarsGet(u, c) ==
    /\ uowState[u] = "Open"
    /\ LET g == CarRepository_get(session[u], db, c, nextRef)
       IN Effect(u, session[u], db, identity_map[u], EmptyFn,
                 [Op("cars.get", u, c, g.outcome)
                    EXCEPT !.cars = g.cars, !.fresh = g.fresh])
    /\ UNCHANGED <<uowState, addLog, depth, orphans>>

\* uow.cars.list()
CarsList(u) ==
    /\ uowState[u] = "Open"
    /\ LET l == CarRepository_list(session[u], db, nextRef)
       IN Effect(u, session[u], db, identity_map[u], EmptyFn,
                 [Op("cars.list", u, "None", l.outcome)
                    EXCEPT !.cars = l.cars, !.fresh = l.fresh])
    /\ UNCHANGED <<uowState, addLog, depth, orphans>>

\* uow.commit()
Commit(u) ==
    /\ uowState[u] = "Open"
    /\ LET c == MainUnitOfWork_commit(session[u], db)
       IN /\ Effect(u, c.sess, c.db, identity_map[u], EmptyFn,
                    [Op("commit", u, "None", c.outcome)
                       EXCEPT !.calls = <<"commit">>])
          /\ addLog' = IF c.outcome = "ok" THEN Mark(u, "committed") ELSE addLog
    /\ UNCHANGED <<uowState, depth, orphans>>

\* uow.rollback()
Rollback(u) ==
    /\ uowState[u] = "Open"
    /\ Effect(u, MainUnitOfWork_rollback(session[u]), db, identity_map[u],
              EmptyFn,
              [Op("rollback", u, "None", "ok") EXCEPT !.calls = <<"rollback">>])
    /\ addLog' = Mark(u, "discarded")
    /\ UNCHANGED <<uowState, depth, orphans>>

\* The with-block is left, normally or by the exception of the call that
\* has just failed (MainUnitOfWork.__exit__).
Exit(u) ==
    /\ depth[u] > 0
    /\ LET x == MainUnitOfWork_exit(session[u])
       IN Effect(u, x.sess, db, identity_map[u], EmptyFn,
                 [Op("exit", u, "None", "ok")
                    EXCEPT !.calls = x.calls,
                           !.afterError = (lastOp.uow = u /\ lastOp.outcome # "ok")])
    /\ uowState' = [uowState EXCEPT ![u] = "Ended"]
    /\ addLog' = Left(Mark(u, "discarded"), u)
    /\ depth' = [depth EXCEPT ![u] = @ - 1]
    /\ UNCHANGED orphans

Next ==
    \E u \in UoWs :
        \/ Enter(u)
        \/ \E inp \in AddInputs : UsersAdd(u, inp)
        \/ \E car \in CarAddInputs : CarsAdd(u, car)
        \/ \E k \in UserIds : UsersGet(u, k)
        \/ UsersList(u)
        \/ \E c \in CarIds : CarsGet(u, c)
        \/ CarsList(u)
        \/ Commit(u)
        \/ Rollback(u)
        \/ Exit(u)

Spec == Init /\ [][Next]_vars

\* ------------------------------------------------------------- the mapper alone
\* The mapper applied to an entity of the caller, with no store in
\* between: the caller's entity at reference 1, the entity rebuilt from
\* its model at reference 2.
MapperInputs == UserInputs(MaxCars)

RoundTrip(inp) ==
    /\ lastOp.op = "init"
    /\ LET u == UserEntity(inp, 1)
           back == user_model_to_entity(user_entity_to_model(u), 2)
       IN /\ heap' = (1 :> u) @@ (2 :> back)
          /\ lastOp' = [Op("roundtrip", "None", inp.id, "ok") EXCEPT !.ret = 2]
    /\ nextRef' = 3
    /\ UNCHANGED <<db, uowState, session, identity_map, addLog, depth, orphans>>

NextMapper == \E inp \in MapperInputs : RoundTrip(inp)

SpecMapper == Init /\ [][NextMapper]_vars

\* ------------------------------------------------------------- callers off the protocol
\* Calls that the with-statement protocol does not rule out: commit() and
\* rollback() on a Unit of Work that is not in a with-block, and a
\* with-block on a Unit of Work inside a with-block on the same object.
\* The methods have no guard of their own.

\* uow.commit() outside the Open state. Before the first __enter__ the
\* object has no attribute session and the lookup raises; after __exit__
\* self.session still names the closed session, and the call is made on
\* it.
CommitOutside(u) ==
    /\ uowState[u] # "Open"
    /\ IF uowState[u] = "Closed"
         THEN /\ lastOp' = Op("commit", u, "None", "AttributeError")
              /\ UNCHANGED <<db, session, identity_map, heap, nextRef>>
         ELSE LET c == MainUnitOfWork_commit(session[u], db)
              IN Effect(u, c.sess, c.db, identity_map[u], EmptyFn,
                        [Op("commit", u, "None", c.outcome)
                           EXCEPT !.calls = <<"commit">>])
    /\ UNCHANGED <<uowState, addLog, depth, orphans>>

\* uow.rollback() outside the Open state
RollbackOutside(u) ==
    /\ uowState[u] # "Open"
    /\ IF uowState[u] = "Closed"
         THEN /\ lastOp' = Op("rollback", u, "None", "AttributeError")
              /\ UNCHANGED <<db, session, identity_map, heap, nextRef>>
         ELSE Effect(u, MainUnitOfWork_rollback(session[u]), db,
                     identity_map[u], EmptyFn,
                     [Op("rollback", u, "None", "ok")
                        EXCEPT !.calls = <<"rollback">>])
    /\ UNCHANGED <<uowState, addLog, depth, orphans>>

\* with uow: inside a with-block on uow. __enter__ binds self.session and
\* the repositories anew; a session that was open is left behind, and no
\* reference to it remains.
Reenter(u) ==
    /\ depth[u] >= 1
    /\ depth[u] < MaxDepth
    /\ uowState[u] = "Open" => orphans < MaxOrphans
    /\ uowState' = [uowState EXCEPT ![u] = "Open"]
    /\ Effect(u, MainUnitOfWork_enter.sess, db, MainUnitOfWork_enter.map,
              EmptyFn, Op("enter", u, "None", "ok"))
    /\ depth' = [depth EXCEPT ![u] = @ + 1]
    /\ orphans' = IF uowState[u] = "Open" THEN orphans + 1 ELSE orphans
    /\ addLog' = Left(addLog, u)

NextMisuse ==
    \E u \in UoWs :
        \/ Enter(u)
        \/ Reenter(u)
        \/ Exit(u)
        \/ Commit(u)
        \/ Rollback(u)
        \/ CommitOutside(u)
        \/ RollbackOutside(u)
        \/ \E inp \in AddInputs : UsersAdd(u, inp)
        \/ \E k \in UserIds : UsersGet(u, k)

SpecMisuse == Init /\ [][NextMisuse]_vars

\* ------------------------------------------------------------- notions of the claims
Adds == {"users.add", "cars.add"}

\* The last call was users.get(k) on u and returned an entity.
GotUser(u, k) ==
    /\ lastOp.op = "users.get"
    /\ lastOp.uow = u
    /\ lastOp.key = k
    /\ lastOp.outcome = "ok"
    /\ lastOp.ret # NoRef

\* The entity e has the identifier, the name and the cars (identifier,
\* brand) of the entity logged as added under k.
EqualToAdded(e, k) ==
    /\ e.id = k
    /\ e.name = addLog[k].name
    /\ CarPairs(e.cars) = CarPairs(addLog[k].cars)

\* The persisted cars of user k, as (identifier, brand) pairs.
PersistedCarPairs(k) ==
    {<<c, db.cars[c].brand>> : c \in {x \in DOMAIN db.cars : db.cars[x].user_id = k}}

\* The current scope of u has had a users.add with identifier k rejected.
Rejected(u, k) == u \in Writers /\ k \in DOMAIN addLog /\ addLog[k].again

\* A User object and its cars point at each other.
Consistent(e, r) == \A i \in 1..Len(e.cars) : e.cars[i].user = r

C2_Original ==
    \A u \in UoWs, k \in UserIds :
        (/\ lastOp.op = "users.get"
         /\ lastOp.uow = u
         /\ lastOp.key = k
         /\ lastOp.outcome = "ok"
         /\ k \in DOMAIN addLog
         /\ addLog[k].by # u
         /\ addLog[k].how = "discarded")
        => lastOp.ret = NoRef

\* C2 amended: after a successful add(x) and rollback() with no explicit
\* commit(), or after the scope was left without an explicit commit(),
\* users.get(x.id) of another scope returns an entity equal to x: add has
\* committed x itself, and rollback() and the exit discard only what is
\* still staged in the session. The scope that gets has not itself had a
\* users.add of the identifier rejected.
C2_AddSurvivesRollback ==
    \A u \in UoWs, k \in UserIds :
        (/\ lastOp.op = "users.get"
         /\ lastOp.uow = u
         /\ lastOp.key = k
         /\ lastOp.outcome = "ok"
         /\ k \in DOMAIN addLog
         /\ addLog[k].by # u
         /\ addLog[k].how = "discarded"
         /\ ~Rejected(u, k))
        => /\ lastOp.ret # NoRef
           /\ EqualToAdded(heap[lastOp.ret], k)
           /\ k \in DOMAIN db.users

\* a later scope of the same Unit of Work gets a user whose scope was left
\* without commit()
C2_Witness ==
    \E k \in UserIds :
        /\ GotUser("A", k)
        /\ k \in DOMAIN addLog
        /\ addLog[k].by = "None"
        /\ addLog[k].how = "discarded"
        /\ Len(addLog[k].cars) > 0

\* C3: after add(x) and commit() in one scope, users.get(x.id) of any
\* other scope returns an entity with x's identifier, name and set of
\* cars (identifier, brand), whatever successful operations were
\* interleaved (no users.add of the identifier was rejected in the scope
\* that gets).
C3_CommittedRoundTrip ==
    \A u \in UoWs, k \in UserIds :
        (/\ lastOp.op = "users.get"
         /\ lastOp.uow = u
         /\ lastOp.key = k
         /\ lastOp.outcome = "ok"
         /\ k \in DOMAIN addLog
         /\ addLog[k].by # u
         /\ addLog[k].how = "committed"
         /\ ~Rejected(u, k))
        => /\ lastOp.ret # NoRef
           /\ EqualToAdded(heap[lastOp.ret], k)

\* a user with two cars, added and committed, is got by the other Unit
\* of Work
C3_Witness ==
    \E k \in UserIds :
        /\ GotUser("B", k)
        /\ k \in DOMAIN addLog
        /\ addLog[k].how = "committed"
        /\ Len(addLog[k].cars) = 2

\* C4: an add of an entity whose identifier is persisted fails with a
\* duplicate-key error, and a failed add leaves the persisted records as
\* they were and nothing staged, also when the user's own identifier is
\* new and only one of its cars conflicts.
C4_DuplicateLeavesNothing ==
    [][lastOp'.op \in Adds =>
         /\ (lastOp'.op = "users.add" /\ lastOp'.key \in DOMAIN db.users)
               => lastOp'.outcome = "DuplicateKeyError"
         /\ (lastOp'.op = "cars.add" /\ lastOp'.key \in DOMAIN db.cars
               /\ lastOp'.owner # "None")
               => lastOp'.outcome = "DuplicateKeyError"
         /\ lastOp'.outcome # "ok"
               => /\ db' = db
                  /\ session'[lastOp'.uow].pending = <<>>]_vars

\* a new user with two cars, one of which is persisted, was refused
C4_Witness ==
    /\ lastOp.op = "users.add"
    /\ lastOp.outcome = "DuplicateKeyError"
    /\ lastOp.key \notin DOMAIN db.users
    /\ Len(heap[lastOp.ret].cars) = 2
    /\ heap[lastOp.ret].cars[1].id \in DOMAIN db.cars
    /\ heap[lastOp.ret].cars[2].id \notin DOMAIN db.cars

C6_OwnerlessCarRefused ==
    [][(lastOp'.op = "cars.add" /\ lastOp'.owner = "None") =>
         /\ lastOp'.outcome = "AttributeError"
         /\ lastOp'.calls = <<>>
         /\ db' = db
         /\ session' = session]_vars

\* a car without owner was refused while other records are persisted
C6_Witness ==
    /\ lastOp.op = "cars.add"
    /\ lastOp.owner = "None"
    /\ lastOp.outcome = "AttributeError"
    /\ DOMAIN db.cars # {}

\* C7 as stated: every entity graph handed back by users.get, users.list,
\* cars.get and cars.list is consistent in both directions: every car of
\* a returned User points back at that User, and every returned Car is
\* in the car list of the User it points at.
C7_Original ==
    /\ (lastOp.op = "users.get" /\ lastOp.ret # NoRef)
          => Consistent(heap[lastOp.ret], lastOp.ret)
    /\ lastOp.op = "users.list"
          => \A r \in DOMAIN lastOp.fresh : Consistent(lastOp.fresh[r], r)
    /\ lastOp.op \in {"cars.get", "cars.list"}
          => \A i \in 1..Len(lastOp.cars) :
                LET c == lastOp.cars[i] IN
                /\ c.user \in DOMAIN lastOp.fresh
                /\ c \in Range(lastOp.fresh[c.user].cars)
                /\ Consistent(lastOp.fresh[c.user], c.user)

\* C8: the mapper's round trip. For every User entity u with at least one
\* car, user_model_to_entity(user_entity_to_model(u)) has u's identifier,
\* name and set of cars (identifier, brand), and every rebuilt car points
\* at the rebuilt User object itself.
C8_RoundTrip ==
    (lastOp.op = "roundtrip" /\ Len(heap[1].cars) > 0) =>
        LET u == heap[1]
            back == heap[lastOp.ret]
        IN /\ back.id = u.id
           /\ back.name = u.name
           /\ CarPairs(back.cars) = CarPairs(u.cars)
           /\ Len(back.cars) = Len(u.cars)
           /\ lastOp.ret # 1
           /\ Consistent(back, lastOp.ret)

\* an entity with two different cars whose owner the caller left None
C8_Witness ==
    /\ lastOp.op = "roundtrip"
    /\ Len(heap[1].cars) = 2
    /\ heap[1].cars[1].id # heap[1].cars[2].id
    /\ heap[1].cars[1].brand # heap[1].cars[2].brand
    /\ heap[1].cars[1].user = NoRef
    /\ heap[2].cars[1].user = 2

\* C9: list() reflects exactly the persisted records. users.list() returns
\* one new User per users row, with the row's identifier and name and
\* exactly the cars persisted for it; cars.list() returns one Car per
\* cars row, with its brand and an owner whose identifier is that of the
\* user the car was added under.
C9_ListReflectsStore ==
    /\ (lastOp.op = "users.list" /\ lastOp.outcome = "ok") =>
          /\ Len(lastOp.users) = Cardinality(DOMAIN db.users)
          /\ Cardinality(Range(lastOp.users)) = Len(lastOp.users)
          /\ Range(lastOp.users) = DOMAIN lastOp.fresh
          /\ {lastOp.fresh[r].id : r \in DOMAIN lastOp.fresh} = DOMAIN db.users
          /\ \A r \in DOMAIN lastOp.fresh :
                LET e == lastOp.fresh[r] IN
                /\ e.name = db.users[e.id]
                /\ CarPairs(e.cars) = PersistedCarPairs(e.id)
                /\ Len(e.cars) = Cardinality(PersistedCarPairs(e.id))
    /\ (lastOp.op = "cars.list" /\ lastOp.outcome = "ok") =>
          /\ Len(lastOp.cars) = Cardinality(DOMAIN db.cars)
          /\ {lastOp.cars[i].id : i \in 1..Len(lastOp.cars)} = DOMAIN db.cars
          /\ \A i \in 1..Len(lastOp.cars) :
                LET c == lastOp.cars[i] IN
                /\ c.brand = db.cars[c.id].brand
                /\ c.user \in DOMAIN lastOp.fresh
                /\ lastOp.fresh[c.user].id = db.cars[c.id].user_id
                /\ \A k \in DOMAIN addLog :
                      <<c.id, c.brand>> \in CarPairs(addLog[k].cars)
                         => lastOp.fresh[c.user].id = k

\* cars.list() of two cars of different owners, one of them added with
\* its user by users.add
C9_Witness ==
    /\ lastOp.op = "cars.list"
    /\ Len(lastOp.cars) = 2
    /\ lastOp.fresh[lastOp.cars[1].user].id # lastOp.fresh[lastOp.cars[2].user].id
    /\ \E k \in DOMAIN addLog : Len(addLog[k].cars) = 1

\* C10: a successful add commits at once. When it returns, the rows of
\* the entity are in the committed store and nothing is left staged; the
\* other Unit of Work gets the user before any explicit commit(); and no
\* rollback() or exit removes a committed row.
C10_AfterAdd ==
    /\ (lastOp.op = "users.add" /\ lastOp.outcome = "ok") =>
          /\ lastOp.key \in DOMAIN db.users
          /\ db.users[lastOp.key] = heap[lastOp.ret].name
          /\ PersistedCarPairs(lastOp.key) = CarPairs(heap[lastOp.ret].cars)
          /\ session[lastOp.uow].pending = <<>>
    /\ (lastOp.op = "cars.add" /\ lastOp.outcome = "ok") =>
          /\ lastOp.key \in DOMAIN db.cars
          /\ db.cars[lastOp.key].user_id = lastOp.owner
          /\ lastOp.owner \in DOMAIN db.users
          /\ session[lastOp.uow].pending = <<>>
    /\ \A u \in UoWs, k \in UserIds :
          (/\ lastOp.op = "users.get"
           /\ lastOp.uow = u
           /\ lastOp.key = k
           /\ lastOp.outcome = "ok"
           /\ k \in DOMAIN addLog
           /\ addLog[k].by # u
           /\ addLog[k].how = "added")
          => /\ lastOp.ret # NoRef
             /\ EqualToAdded(heap[lastOp.ret], k)

C10_AddCommitsImmediately ==
    /\ []C10_AfterAdd
    /\ [][lastOp'.op \in {"rollback", "exit"} => db' = db]_vars

\* the other Unit of Work gets a user while the adding scope is open and
\* has neither committed nor rolled back
C10_Witness ==
    \E k \in UserIds :
        /\ GotUser("B", k)
        /\ k \in DOMAIN addLog
        /\ addLog[k].by = "A"
        /\ addLog[k].how = "added"

\* C11 as stated: commit() and rollback() are available only in the Open
\* state. Called on a Unit of Work that was never entered or whose scope
\* has ended, they are refused: they make no call on the session and
\* leave the store and the session as they were.
C11_Original ==
    (lastOp.op \in {"commit", "rollback"} /\ uowState[lastOp.uow] # "Open")
        => /\ lastOp.outcome # "ok"
           /\ lastOp.calls = <<>>

\* C12 as stated: whenever the identifier k is in the scope's identity
\* map, a users.get(k) that returns hands out the mapped instance,
\* whatever the store query yields for k.
C12_Original ==
    (/\ lastOp.op = "users.get"
     /\ lastOp.outcome = "ok"
     /\ lastOp.key \in DOMAIN identity_map[lastOp.uow])
    => lastOp.ret = identity_map[lastOp.uow][lastOp.key]

\* C17 as stated: whenever users.get(k) returns an entity, the entity has
\* the name of the persisted users row of k and exactly the (identifier,
\* brand) pairs of the cars rows persisted under k.
C17_Original ==
    \A u \in UoWs, k \in UserIds :
        GotUser(u, k) =>
            /\ k \in DOMAIN db.users
            /\ heap[lastOp.ret].name = db.users[k]
            /\ CarPairs(heap[lastOp.ret].cars) = PersistedCarPairs(k)

\* C13: no negative caching. A users.get(k) that finds no persisted
\* record of k returns nothing and leaves the identity map as it was; a
\* users.get(k) made when k is persisted returns a User with identifier
\* k, also in a scope in which an earlier get(k) had found nothing: after
\* the miss and the add of k by another scope it returns an entity equal
\* to the one added.
C13_AfterGet ==
    /\ (lastOp.op = "users.get" /\ lastOp.outcome = "ok"
          /\ lastOp.key \in DOMAIN db.users)
          => /\ lastOp.ret # NoRef
             /\ heap[lastOp.ret].id = lastOp.key
    /\ (lastOp.op = "users.get" /\ lastOp.afterMiss)
          => /\ lastOp.outcome = "ok"
             /\ lastOp.ret # NoRef
             /\ EqualToAdded(heap[lastOp.ret], lastOp.key)

C13_NoNegativeCaching ==
    /\ []C13_AfterGet
    /\ [][(lastOp'.op = "users.get" /\ lastOp'.outcome = "ok"
             /\ lastOp'.key \notin DOMAIN db.users)
          => /\ lastOp'.ret = NoRef
             /\ identity_map' = identity_map
             /\ heap' = heap]_vars

\* a scope got nothing for k, the other scope added k, and the first
\* scope's next get(k) returned the user
C13_Witness ==
    /\ lastOp.op = "users.get"
    /\ lastOp.afterMiss
    /\ lastOp.ret # NoRef
    /\ lastOp.uow = "B"

\* C14: each begin starts with an empty identity map that belongs to that
\* scope alone. After __enter__ the map of the Unit of Work is empty; no
\* object is in the maps of two Units of Work; an object enters a map
\* only as a new object (one the caller has just built and added, or one
\* the get has just built), never one an earlier or another scope held;
\* and what users.get returns is an object of its own scope's map. So a
\* User added or loaded in one scope is never returned by users.get in
\* another, be it a later scope of the same Unit of Work or a scope of the
\* other one running interleaved.
C14_ScopeMaps ==
    /\ lastOp.op = "enter" => identity_map[lastOp.uow] = EmptyFn
    /\ \A u, v \in UoWs :
          u # v => Range(identity_map[u]) \cap Range(identity_map[v]) = {}
    /\ \A u \in UoWs, k \in UserIds :
          GotUser(u, k) =>
              /\ k \in DOMAIN identity_map[u]
              /\ lastOp.ret = identity_map[u][k]
              /\ \A v \in UoWs \ {u} : lastOp.ret \notin Range(identity_map[v])
    /\ \A u \in UoWs : uowState[u] = "Closed" => identity_map[u] = EmptyFn

C14_ScopeOwnsItsMap ==
    /\ []C14_ScopeMaps
    /\ [][\A u \in UoWs :
            \A r \in Range(identity_map'[u]) \ Range(identity_map[u]) :
                /\ r >= nextRef
                /\ r \notin DOMAIN heap
                /\ lastOp'.uow = u
                /\ lastOp'.op \in {"users.add", "users.get"}]_vars

\* a later scope of the Unit of Work that added a user gets the user, as
\* an object other than the one added, while the other Unit of Work is in
\* a scope of its own
C14_Witness ==
    \E k \in UserIds :
        /\ GotUser("A", k)
        /\ k \in DOMAIN addLog
        /\ addLog[k].by = "None"
        /\ lastOp.ret = 2
        /\ uowState["B"] = "Open"

\* C15 as stated: every session acquired by a begin is released by the
\* time the corresponding end has finished: no sequence of begin and end
\* calls on a Unit of Work, entering it again while it is Open included,
\* leaves an acquired session that is never rolled back and released, and
\* a Unit of Work with no with-block running has no open session.
C15_Original ==
    /\ orphans = 0
    /\ \A u \in UoWs : depth[u] = 0 => uowState[u] # "Open"

C18_CarAddInsertsOwner ==
    [][(lastOp'.op = "cars.add" /\ lastOp'.owner # "None") =>
         LET c == lastOp'.key
             o == lastOp'.owner
             free == c \notin DOMAIN db.cars /\ o \notin DOMAIN db.users
         IN /\ lastOp'.calls = <<"add", "commit">>
            /\ lastOp'.outcome = IF free THEN "ok" ELSE "DuplicateKeyError"
            /\ free =>
                 /\ db'.users = (o :> NameOf(o)) @@ db.users
                 /\ DOMAIN db'.cars = DOMAIN db.cars \cup {c}
                 /\ db'.cars[c] = [brand |-> BrandOf(c), user_id |-> o]
                 /\ \A x \in DOMAIN db.cars : db'.cars[x] = db.cars[x]
            /\ ~free => db' = db]_vars

\* a new car was refused because its owner is persisted
C18_Witness ==
    /\ lastOp.op = "cars.add"
    /\ lastOp.outcome = "DuplicateKeyError"
    /\ lastOp.key \notin DOMAIN db.cars
    /\ lastOp.owner \in DOMAIN db.users

\* C19: store-level referential integrity in every reachable state:
\* every persisted cars row has an owner identifier, and the users row of
\* that owner is persisted too.
C19_NoCarWithoutUser ==
    \A c \in DOMAIN db.cars :
        /\ db.cars[c].user_id # "None"
        /\ db.cars[c].user_id \in DOMAIN db.users

\* two cars of different owners are persisted, after an add that failed
\* and a car without owner that was refused
C19_Witness ==
    /\ DOMAIN db.cars = CarIds
    /\ db.cars["c1"].user_id # db.cars["c2"].user_id
    /\ lastOp.op = "cars.add"
    /\ lastOp.outcome # "ok"

====
